---- MODULE Spec2Model ----
(***************************************************************************)
(* A model of lib/Graph/Graph.cpp: the Module (type pool, variables,       *)
(* functions, name counter), the Function (ordered node list, node         *)
(* builders, eraseNode, clone) and the node / edge data they hold.         *)
(*                                                                         *)
(* Objects (Variables and operator Nodes) live at heap addresses; an edge  *)
(* (NodeValue) is a raw pointer plus a result number, so an edge keeps its *)
(* address when the object is deleted, and a later allocation may be       *)
(* placed at a freed address.                                              *)
(*                                                                         *)
(* An assert() that fails ends the process: the model records the state at *)
(* that point with status = "aborted" and takes no further step.           *)
(***************************************************************************)
EXTENDS Integers, Sequences, FiniteSets, TLC

VARIABLES
    types_,       \* Module::types_: the list of uniqued Types, newest first
    vars_,        \* Module::vars_: the list of Variable pointers
    functions_,   \* Module::functions_: each Function's name and nodes_ list
    uniqueIdx_,   \* Module::uniqueIdx_: the counter uniqueName appends
    heap,         \* the object found at each address
    status,       \* "ok", or "aborted" once an assertion failed
    last,         \* the call that produced this state, with its arguments
    misuse,       \* history: some call so far broke the callers' discipline
    probe,        \* the names of the uniqueName round trip (SpecNames)
    other         \* the members of the Module the calls are not made on

vars == <<types_, vars_, functions_, uniqueIdx_, heap, status, last, misuse, probe, other>>

\* ------------------------------------------------------------------ bounds

\* Heap addresses 1..MaxAddr can hold this Module's objects.
MaxAddr == 5
\* uniqueName is called while uniqueIdx_ < MaxIdx.
MaxIdx == 4
\* The same, for the runs without erase calls.
MaxCloneIdx == 6
\* The same, for the runs that verify and that clone misused graphs.
MaxVerifyIdx == 6
\* Predicates are set while fewer than MaxPredicates objects have one.
MaxPredicates == 1
MaxMatIdx == 4
\* The same, for the runs that compute shapes; lists of operands have at
\* most MaxInputs elements.
MaxShapeIdx == 4
MaxInputs == 2
\* The same, for the runs that build convolutions.
MaxConvIdx == 6
\* The same, for the runs that explore the type pool.
MaxTypeIdx == 3
MaxPool == 2
\* Requested names of the round trip have at most MaxLen characters.
MaxLen == 3
\* The round trip starts from a counter in 0..MaxStart.
MaxStart == 11
MaxTwoIdx == 3

\* ------------------------------------------------------------------ names

\* std::string as a sequence of one-character strings.
DigitChar == <<"0", "1", "2", "3", "4", "5", "6", "7", "8", "9">>

RECURSIVE to_string(_)
to_string(n) ==
    IF n < 10 THEN <<DigitChar[n + 1]>>
    ELSE to_string(n \div 10) \o <<DigitChar[(n % 10) + 1]>>

npos == -1

\* llvm::StringRef::find("__", 0): the 0-based position of the first "__".
find(name) ==
    LET hits == {i \in 1..(Len(name) - 1) : name[i] = "_" /\ name[i + 1] = "_"}
    IN  IF hits = {} THEN npos
        ELSE (CHOOSE i \in hits : \A j \in hits : i <= j) - 1

\* llvm::StringRef::substr(0, n)
substr(name, n) == SubSeq(name, 1, n)

\* The part of the name uniqueName keeps: everything before the first "__".
stripped(name) ==
    LET delimPos == find(name)
    IN  IF delimPos # npos THEN substr(name, delimPos) ELSE name

\* A mutant: the suffix is appended and the counter is not advanced.
uniqueName_NoIncrement(name, idx) ==
    [name |-> stripped(name) \o <<"_", "_">> \o to_string(idx), idx |-> idx]

\* A mutant: the counter starts again at 1 once it has passed 2.
uniqueName_Reset(name, idx) ==
    [name |-> stripped(name) \o <<"_", "_">> \o to_string(idx),
     idx |-> IF idx >= 2 THEN 1 ELSE idx + 1]

\* Module::uniqueName: the name returned and the counter after the call.
uniqueName(name, idx) ==
    [name |-> stripped(name) \o <<"_", "_">> \o to_string(idx), idx |-> idx + 1]

\* ------------------------------------------------------------------ types

\* A Type: element kind, dimensions and, for a quantized kind, scale and
\* offset (left at their defaults, 0, for the other kinds).
Type(elem, dims) == [elem |-> elem, dims |-> dims, scale |-> 0, offset |-> 0]

QType(elem, dims, scale, offset) ==
    [elem |-> elem, dims |-> dims, scale |-> scale, offset |-> offset]

\* Type(): the type without dimensions.
VoidType == Type("Index", <<>>)

isQuantizedType(T) == T.elem = "Int8Q"

\* Type::isEqual: structural equality.
isEqual(T, U) ==
    /\ T.elem = U.elem
    /\ T.dims = U.dims
    /\ (isQuantizedType(T) => (T.scale = U.scale /\ T.offset = U.offset))

\* A TypeRef is a pointer to a Type: to an element of types_ (home "pool"),
\* or to a Type that lives elsewhere (home "ext"): on the caller's stack, or
\* in the pool of another Module. ty is the Type it points to.
PoolRef(T) == [home |-> "pool", ty |-> T]
ExtRef(T) == [home |-> "ext", ty |-> T]

NoType == Type("-", <<>>)
NoRef == [home |-> "-", ty |-> NoType]

\* A mutant: the Type is inserted without looking for an equal one.
uniqueType_NoLookup(pool, T) ==
    [pool |-> <<T>> \o pool, ref |-> PoolRef(T)]

\* Module::uniqueType(const Type &): the pool after the call and the TypeRef
\* returned.
uniqueType(pool, T) ==
    LET hits == {i \in 1..Len(pool) : isEqual(T, pool[i])}
    IN  IF hits # {}
        THEN [pool |-> pool,
              ref |-> PoolRef(pool[CHOOSE i \in hits : \A j \in hits : i <= j])]
        ELSE [pool |-> <<T>> \o pool, ref |-> PoolRef(T)]

\* Module::uniqueTypeWithNewShape
uniqueTypeWithNewShape(pool, T, dims) ==
    IF isQuantizedType(T.ty)
    THEN uniqueType(pool, QType(T.ty.elem, dims, T.ty.scale, T.ty.offset))
    ELSE uniqueType(pool, Type(T.ty.elem, dims))

\* ------------------------------------------------------------------- heap

Addr == 1..MaxAddr
\* The address of a Variable that another Module owns.
ForeignVar == 0
NoAddr == -1

Range(s) == {s[i] : i \in 1..Len(s)}
indexOf(s, x) == CHOOSE i \in 1..Len(s) : s[i] = x

\* What an address holds: nothing yet, a deleted object, a Variable, a Node.
\* NodeValue(N, resNo)
NodeValue(N, resNo) == [node |-> N, resNo |-> resNo]

\* The predicate of a node that has none: hasPredicate() is false.
NoPredicate == NodeValue(NoAddr, 0)

Unallocated ==
    [tag |-> "unalloc", kind |-> "-", name |-> <<>>, ins |-> <<>>, tys |-> <<>>,
     pred |-> NoPredicate, attr |-> <<>>]
Deleted ==
    [tag |-> "freed", kind |-> "-", name |-> <<>>, ins |-> <<>>, tys |-> <<>>,
     pred |-> NoPredicate, attr |-> <<>>]

\* new Variable(name, FT, ...)
Variable(name, FT) ==
    [tag |-> "var", kind |-> "Variable", name |-> name, ins |-> <<>>, tys |-> <<FT>>,
     pred |-> NoPredicate, attr |-> <<>>]

\* new <Kind>Node(name, result types, inputs)
Node(kind, name, tys, ins) ==
    [tag |-> "node", kind |-> kind, name |-> name, ins |-> ins, tys |-> tys,
     pred |-> NoPredicate, attr |-> <<>>]

isLive(a) == heap[a].tag \in {"var", "node"}

\* isa<Variable>(N) for a live N
isaVariable(a) == heap[a].tag = "var"

\* NodeValue::getType, NodeValue::dims, NodeValue::getElementType
getType(v) == heap[v.node].tys[v.resNo + 1]
dims(v) == getType(v).ty.dims
getElementType(v) == getType(v).ty.elem

\* operator new: the lowest address never used, or any address whose object
\* was deleted.
AllocChoices(h) ==
    LET fresh == {a \in Addr : h[a].tag = "unalloc"}
    IN  {a \in Addr : h[a].tag = "freed"} \cup
        (IF fresh = {} THEN {} ELSE {CHOOSE a \in fresh : \A b \in fresh : a <= b})

\* The addresses n successive allocations can return.
RECURSIVE AllocSeqs(_, _)
AllocSeqs(h, n) ==
    IF n = 0 THEN {<<>>}
    ELSE UNION {{<<a>> \o rest :
                    rest \in AllocSeqs([h EXCEPT ![a] = Node("-", <<>>, <<>>, <<>>)], n - 1)} :
                a \in AllocChoices(h)}

\* The NodeValues a caller can hold: a result of a live object.
Operands ==
    {v \in [node : Addr, resNo : {0, 1}] :
        isLive(v.node) /\ v.resNo < Len(heap[v.node].tys)}

\* ---------------------------------------------------------------- functions

\* Module::getFunction / Module::hasFunction
hasFunction_Never(name) == FALSE

hasFunction(name) == \E i \in 1..Len(functions_) : functions_[i].name = name

Functions == 1..Len(functions_)

\* Function::getNodes
getNodes(f) == functions_[f].nodes

\* The edge v, held by a node of function f, has its producer among the
\* Module's Variables or among the nodes of f.
Resolves(f, v) ==
    \/ v.node \in Range(vars_) /\ heap[v.node].tag = "var"
    \/ v.node \in Range(getNodes(f)) /\ heap[v.node].tag = "node"

\* Some node of some function has an input edge or its predicate edge to
\* address a.
hasUsers(a) ==
    \E f \in Functions : \E n \in Range(getNodes(f)) :
        \/ \E i \in 1..Len(heap[n].ins) : heap[n].ins[i].node = a
        \/ heap[n].pred.node = a

\* The external map of a call that has none, and the empty map clone is given.
NoMap == <<>>

\* The call that led to the state: the operation, the function it was called
\* on (0: the Module), the node or Variable it made or was given, and the
\* function name it was given.
Call(op, f, a, name) ==
    [op |-> op, f |-> f, a |-> a, name |-> name, req |-> NoType, ret |-> NoRef,
     map |-> NoMap, why |-> "", args |-> <<>>]

\* A call of the type pool: the Type asked for and the TypeRef returned.
TypeCall(op, T, ref) ==
    [op |-> op, f |-> 0, a |-> NoAddr, name |-> "", req |-> T, ret |-> ref,
     map |-> NoMap, why |-> "", args |-> <<>>]

\* The call that failed an assertion.
Failed(op) == Call(op, 0, NoAddr, "")

\* -------------------------------------------------------- Module operations

\* An assertion failed: the process ends in the state reached so far.
Aborted(call) ==
    /\ status' = "aborted"
    /\ last' = call

Returned(call) ==
    /\ status' = "ok"
    /\ last' = call

\* Module::createFunction
createFunction(name) ==
    /\ status = "ok"
    /\ IF hasFunction(name)
       THEN /\ Aborted(Failed("createFunction"))
            /\ UNCHANGED functions_
       ELSE /\ Returned(Call("createFunction", Len(functions_) + 1, NoAddr, name))
            /\ functions_' = Append(functions_, [name |-> name, nodes |-> <<>>])
    /\ UNCHANGED <<types_, vars_, uniqueIdx_, heap, misuse, probe, other>>

\* Module::uniqueType, called by the front end.
callUniqueType(T) ==
    /\ status = "ok"
    /\ types_' = uniqueType(types_, T).pool
    /\ Returned(TypeCall("uniqueType", T, uniqueType(types_, T).ref))
    /\ UNCHANGED <<vars_, functions_, uniqueIdx_, heap, misuse, probe, other>>

\* Module::uniqueTypeWithNewShape, called by the front end.
callUniqueTypeWithNewShape(T, newDims) ==
    /\ status = "ok"
    /\ types_' = uniqueTypeWithNewShape(types_, T, newDims).pool
    /\ Returned(TypeCall("uniqueTypeWithNewShape",
                         IF isQuantizedType(T.ty)
                         THEN QType(T.ty.elem, newDims, T.ty.scale, T.ty.offset)
                         ELSE Type(T.ty.elem, newDims),
                         uniqueTypeWithNewShape(types_, T, newDims).ref))
    /\ UNCHANGED <<vars_, functions_, uniqueIdx_, heap, misuse, probe, other>>

\* Module::getVoidTy
getVoidTy ==
    /\ status = "ok"
    /\ types_' = uniqueType(types_, VoidType).pool
    /\ Returned(TypeCall("getVoidTy", VoidType, uniqueType(types_, VoidType).ref))
    /\ UNCHANGED <<vars_, functions_, uniqueIdx_, heap, misuse, probe, other>>

\* Module::createVariable(TypeRef, name, ...), which the overloads taking an
\* element kind and dimensions reach after uniquing that type; with
\* Module::addVar: the Variable is given its unique name and appended.
createVariable(T, name, a) ==
    /\ status = "ok"
    /\ a \in AllocChoices(heap)
    /\ LET FT == uniqueType(types_, T.ty)
           un == uniqueName(name, uniqueIdx_)
       IN  /\ types_' = FT.pool
           /\ heap' = [heap EXCEPT ![a] = Variable(un.name, FT.ref)]
           /\ uniqueIdx_' = un.idx
           /\ vars_' = Append(vars_, a)
    /\ Returned(Call("createVariable", 0, a, ""))
    /\ UNCHANGED <<functions_, misuse, probe, other>>

\* Module::eraseVariable(Variable *). `auto vars = getVars()` is a copy of
\* vars_, and I an iterator of that copy, so the test I == vars_.end() of
\* eraseVariable(iterator) never holds.
\*  - N in the list: *I is deleted, then vars_.erase(I) is given an iterator
\*    of another list. The node is unlinked from the copy: vars_ keeps the
\*    pointer to the deleted Variable ("kept"), or a checked build stops
\*    ("crash").
\*  - N not in the list: I is the end of the copy and `delete *I` reads
\*    past it: the process stops ("crash") or goes on ("kept").
eraseVariable(N, outcome, call) ==
    /\ vars_' = vars_
    /\ IF N \in Range(vars_)
       THEN heap' = [heap EXCEPT ![N] = Deleted]
       ELSE heap' = heap
    /\ IF outcome = "crash" THEN Aborted(Failed(call.op)) ELSE Returned(call)
    /\ misuse' = (misuse \/ (N \in Range(vars_) /\ hasUsers(N)))
    /\ UNCHANGED <<types_, functions_, uniqueIdx_, probe, other>>

callEraseVariable(N, outcome) ==
    /\ status = "ok"
    /\ isLive(N) /\ isaVariable(N)
    /\ eraseVariable(N, outcome, Call("eraseVariable", 0, N, ""))

\* ------------------------------------------------------ Function operations

\* Function::addNode: the node is appended to nodes_ and given its unique
\* name.
addNode(fs, f, a) == [fs EXCEPT ![f].nodes = Append(@, a)]

\* The callers' discipline for operands: each is a Variable of this Module
\* or a node of the function being built.
foreignOperand(f, ops) == \E i \in 1..Len(ops) : ~Resolves(f, ops[i])

\* ARITHMETIC_FUN_DEF: create<Kind>(name, T, LHS, RHS); the form without T
\* passes LHS.getType().
createArith(kind, f, name, T, LHS, RHS, a) ==
    /\ status = "ok"
    /\ f \in Functions
    /\ a \in AllocChoices(heap)
    /\ IF dims(LHS) # dims(RHS)
       THEN /\ Aborted(Failed(kind))
            /\ UNCHANGED <<functions_, heap, uniqueIdx_, misuse>>
       ELSE LET un == uniqueName(name, uniqueIdx_)
            IN  /\ heap' = [heap EXCEPT ![a] = Node(kind, un.name, <<T>>, <<LHS, RHS>>)]
                /\ functions_' = addNode(functions_, f, a)
                /\ uniqueIdx_' = un.idx
                /\ misuse' = (misuse \/ foreignOperand(f, <<LHS, RHS>>))
                /\ Returned(Call(kind, f, a, ""))
    /\ UNCHANGED <<types_, vars_, probe, other>>

\* Function::createSplat: a node without inputs, of the type given.
createSplat(f, name, ty, a) ==
    /\ status = "ok"
    /\ f \in Functions
    /\ a \in AllocChoices(heap)
    /\ LET un == uniqueName(name, uniqueIdx_)
       IN  /\ heap' = [heap EXCEPT ![a] = Node("Splat", un.name, <<ty>>, <<>>)]
           /\ functions_' = addNode(functions_, f, a)
           /\ uniqueIdx_' = un.idx
    /\ Returned(Call("Splat", f, a, ""))
    /\ UNCHANGED <<types_, vars_, misuse, probe, other>>

\* Function::createQuantize
createQuantize(f, name, input, outTy, a) ==
    /\ status = "ok"
    /\ f \in Functions
    /\ a \in AllocChoices(heap)
    /\ IF \/ getElementType(input) # "Float"
          \/ outTy.ty.elem # "Int8Q"
          \/ dims(input) # outTy.ty.dims
       THEN /\ Aborted(Failed("Quantize"))
            /\ UNCHANGED <<functions_, heap, uniqueIdx_, misuse>>
       ELSE LET un == uniqueName(name, uniqueIdx_)
            IN  /\ heap' = [heap EXCEPT ![a] = Node("Quantize", un.name, <<outTy>>, <<input>>)]
                /\ functions_' = addNode(functions_, f, a)
                /\ uniqueIdx_' = un.idx
                /\ misuse' = (misuse \/ foreignOperand(f, <<input>>))
                /\ Returned(Call("Quantize", f, a, ""))
    /\ UNCHANGED <<types_, vars_, probe, other>>

\* Function::createMatMul(name, outTy, lhs, rhs)
createMatMul(f, name, outTy, lhs, rhs, a) ==
    /\ status = "ok"
    /\ f \in Functions
    /\ a \in AllocChoices(heap)
    /\ LET OT == uniqueType(types_, outTy.ty)
           un == uniqueName(name, uniqueIdx_)
       IN  /\ types_' = OT.pool
           /\ heap' = [heap EXCEPT ![a] = Node("MatMul", un.name, <<OT.ref>>, <<lhs, rhs>>)]
           /\ functions_' = addNode(functions_, f, a)
           /\ uniqueIdx_' = un.idx
           /\ misuse' = (misuse \/ foreignOperand(f, <<lhs, rhs>>))
           /\ Returned(Call("MatMul", f, a, ""))
    /\ UNCHANGED <<vars_, probe, other>>

\* Function::createMatMul(name, lhs, rhs): the result type is made from the
\* shapes of the operands, then createMatMul(name, ty, lhs, rhs) is called.
\* LDims[0] and RDims[1] are checked reads of an ArrayRef.
createMatMulInferred(f, name, lhs, rhs, a) ==
    /\ status = "ok"
    /\ f \in Functions
    /\ a \in AllocChoices(heap)
    /\ IF \/ Len(dims(lhs)) < 1
          \/ Len(dims(rhs)) < 2
          \/ getElementType(lhs) # getElementType(rhs)
       THEN /\ Aborted(Failed("MatMul"))
            /\ UNCHANGED <<types_, functions_, heap, uniqueIdx_, misuse>>
       ELSE LET ty == uniqueTypeWithNewShape(types_, getType(lhs),
                                             <<dims(lhs)[1], dims(rhs)[2]>>)
                OT == uniqueType(ty.pool, ty.ref.ty)
                un == uniqueName(name, uniqueIdx_)
            IN  /\ types_' = OT.pool
                /\ heap' = [heap EXCEPT ![a] = Node("MatMul", un.name, <<OT.ref>>, <<lhs, rhs>>)]
                /\ functions_' = addNode(functions_, f, a)
                /\ uniqueIdx_' = un.idx
                /\ misuse' = (misuse \/ foreignOperand(f, <<lhs, rhs>>))
                /\ Returned(Call("MatMul", f, a, ""))
    /\ UNCHANGED <<vars_, probe, other>>

\* A mutant: only the element kind and the rank are compared.
sameSameShapeExceptDim_RankOnly(T1, T2, dim) ==
    /\ T1.ty.elem = T2.ty.elem
    /\ Len(T1.ty.dims) = Len(T2.ty.dims)

\* static sameSameShapeExceptDim(T1, T2, dim); dim counts from 0.
sameSameShapeExceptDim(T1, T2, dim) ==
    /\ T1.ty.elem = T2.ty.elem
    /\ Len(T1.ty.dims) = Len(T2.ty.dims)
    /\ \A i \in 1..Len(T1.ty.dims) : i # dim + 1 => T1.ty.dims[i] = T2.ty.dims[i]

\* shape[dimension] after `shape[dimension] += I->getType()->dims()[dimension]`
\* for each of inputs.
RECURSIVE stacked(_, _)
stacked(inputs, dimension) ==
    IF inputs = <<>> THEN 0
    ELSE dims(NodeValue(inputs[1], 0))[dimension + 1] + stacked(Tail(inputs), dimension)

\* Function::createConcat(name, inputs, dimension). inputs[0] and
\* shape[dimension] are checked reads.
createConcat(f, name, inputs, dimension, a) ==
    /\ status = "ok"
    /\ f \in Functions
    /\ a \in AllocChoices(heap)
    /\ IF \/ inputs = <<>>
          \/ \E i \in 2..Len(inputs) :
                ~sameSameShapeExceptDim(getType(NodeValue(inputs[i], 0)),
                                        getType(NodeValue(inputs[1], 0)), dimension)
          \/ dimension >= Len(dims(NodeValue(inputs[1], 0)))
       THEN /\ Aborted(Failed("Concat"))
            /\ UNCHANGED <<types_, functions_, heap, uniqueIdx_, misuse>>
       ELSE LET first == NodeValue(inputs[1], 0)
                shape == [dims(first) EXCEPT ![dimension + 1] = stacked(inputs, dimension)]
                NT == uniqueTypeWithNewShape(types_, getType(first), shape)
                ops == [i \in 1..Len(inputs) |-> NodeValue(inputs[i], 0)]
                un == uniqueName(name, uniqueIdx_)
            IN  /\ types_' = NT.pool
                /\ heap' = [heap EXCEPT ![a] =
                              [Node("Concat", un.name, <<NT.ref>>, ops)
                                 EXCEPT !.attr = <<dimension>>]]
                /\ functions_' = addNode(functions_, f, a)
                /\ uniqueIdx_' = un.idx
                /\ misuse' = (misuse \/ foreignOperand(f, ops))
                /\ Returned(Call("Concat", f, a, ""))
    /\ UNCHANGED <<vars_, probe, other>>

\* A mutant: end may equal begin.
sliceAsserts_EmptyAllowed(dim_i, begin_i, end_i) ==
    begin_i >= 0 /\ begin_i < dim_i /\ end_i <= dim_i /\ end_i >= begin_i

\* The assertions of the loop of createSlice for one axis.
sliceAsserts(dim_i, begin_i, end_i) ==
    /\ begin_i >= 0
    /\ end_i > 0
    /\ begin_i < dim_i
    /\ end_i <= dim_i
    /\ end_i > begin_i

\* Function::createSlice(name, input, begin, end)
createSlice(f, name, input, begin, end, a) ==
    /\ status = "ok"
    /\ f \in Functions
    /\ a \in AllocChoices(heap)
    /\ IF \/ Len(begin) # Len(end)
          \/ Len(begin) # Len(dims(input))
          \/ \E i \in 1..Len(dims(input)) : ~sliceAsserts(dims(input)[i], begin[i], end[i])
       THEN /\ Aborted(Failed("Slice"))
            /\ UNCHANGED <<types_, functions_, heap, uniqueIdx_, misuse>>
       ELSE LET shape == [i \in 1..Len(dims(input)) |-> end[i] - begin[i]]
                NT == uniqueTypeWithNewShape(types_, getType(input), shape)
                un == uniqueName(name, uniqueIdx_)
            IN  /\ types_' = NT.pool
                /\ heap' = [heap EXCEPT ![a] =
                              [Node("Slice", un.name, <<NT.ref>>, <<input>>)
                                 EXCEPT !.attr = begin]]
                /\ functions_' = addNode(functions_, f, a)
                /\ uniqueIdx_' = un.idx
                /\ misuse' = (misuse \/ foreignOperand(f, <<input>>))
                /\ Returned([Call("Slice", f, a, "") EXCEPT !.args = <<begin, end>>])
    /\ UNCHANGED <<vars_, probe, other>>

\* ShapeNHWC(dims): the four dimensions of a tensor of rank 4.
ShapeNHWC(shape) == [n |-> shape[1], h |-> shape[2], w |-> shape[3], c |-> shape[4]]

\* calculateConvOutputDims(sx, sy, filterSize, stride, pad)
calculateConvOutputDims(sx, sy, filterSize, stride, pad) ==
    [first |-> ((sx + 2 * pad - filterSize) \div stride) + 1,
     second |-> ((sy + 2 * pad - filterSize) \div stride) + 1]

\* A mutant: only the width is compared with the kernel.
convAsserts_WidthOnly(idim, kernel) == idim.w >= kernel

\* assert(idim.w >= kernel && idim.h >= kernel)
convAsserts(idim, kernel) == idim.w >= kernel /\ idim.h >= kernel

\* Function::createConv(name, input, depth, kernel, stride, pad): the filter,
\* the bias and the node are allocated at to[1], to[2], to[3].
createConv(f, name, input, depth, kernel, stride, pad, to) ==
    /\ status = "ok"
    /\ f \in Functions
    /\ to \in AllocSeqs(heap, 3)
    /\ IF Len(dims(input)) # 4 \/ ~convAsserts(ShapeNHWC(dims(input)), kernel)
       THEN /\ Aborted(Failed("Conv"))
            /\ UNCHANGED <<types_, vars_, functions_, heap, uniqueIdx_, misuse>>
       ELSE LET idim == ShapeNHWC(dims(input))
                outSz == calculateConvOutputDims(idim.h, idim.w, kernel, stride, pad)
                outDims == <<idim.n, outSz.first, outSz.second, depth>>
                filterDim == <<depth, kernel, kernel, idim.c>>
                FT == uniqueType(types_, Type("Float", filterDim))
                filterName == uniqueName(<<"f", "i", "l", "t", "e", "r">>, uniqueIdx_)
                BT == uniqueType(FT.pool, Type("Float", <<depth>>))
                biasName == uniqueName(<<"b", "i", "a", "s">>, filterName.idx)
                OT == uniqueType(BT.pool, Type("Float", outDims))
                un == uniqueName(name, biasName.idx)
            IN  /\ types_' = OT.pool
                /\ vars_' = vars_ \o <<to[1], to[2]>>
                /\ heap' = [heap EXCEPT
                              ![to[1]] = [Variable(filterName.name, FT.ref)
                                            EXCEPT !.attr = <<"Private", "Xavier">>],
                              ![to[2]] = [Variable(biasName.name, BT.ref)
                                            EXCEPT !.attr = <<"Private", "Broadcast">>],
                              ![to[3]] = [Node("Conv", un.name, <<OT.ref>>,
                                               <<input, NodeValue(to[1], 0), NodeValue(to[2], 0)>>)
                                            EXCEPT !.attr = <<kernel, stride, pad, depth>>]]
                /\ functions_' = addNode(functions_, f, to[3])
                /\ uniqueIdx_' = un.idx
                /\ misuse' = (misuse \/ foreignOperand(f, <<input>>))
                /\ Returned(Call("Conv", f, to[3], ""))
    /\ UNCHANGED <<probe, other>>

\* A mutant: the Variable is made Private.
saveKinds_Private == <<"Private", "None">>

\* Variable::VisibilityKind::Public, Variable::TrainKind::None
saveKinds == <<"Public", "None">>

\* std::string nodeName{"_save_"}; nodeName += name;
saveNodeName(name) == <<"_", "s", "a", "v", "e", "_">> \o name

\* Function::createSave(name, input): the Variable and the node are
\* allocated at to[1] and to[2].
createSave(f, name, input, to) ==
    /\ status = "ok"
    /\ f \in Functions
    /\ to \in AllocSeqs(heap, 2)
    /\ LET FT == uniqueType(types_, getType(input).ty)
           destName == uniqueName(name, uniqueIdx_)
           un == uniqueName(saveNodeName(name), destName.idx)
       IN  /\ types_' = FT.pool
           /\ vars_' = Append(vars_, to[1])
           /\ heap' = [heap EXCEPT
                         ![to[1]] = [Variable(destName.name, FT.ref) EXCEPT !.attr = saveKinds],
                         ![to[2]] = Node("Save", un.name, <<>>,
                                         <<input, NodeValue(to[1], 0)>>)]
           /\ functions_' = addNode(functions_, f, to[2])
           /\ uniqueIdx_' = un.idx
           /\ misuse' = (misuse \/ foreignOperand(f, <<input>>))
           /\ Returned([Call("Save", f, to[2], "") EXCEPT !.args = <<input>>])
    /\ UNCHANGED <<probe, other>>

\* Type::size(): the number of elements.
RECURSIVE size(_)
size(shape) == IF shape = <<>> THEN 1 ELSE shape[1] * size(Tail(shape))

\* Function::createReshape(name, input, shape): the Type is made, then its
\* size is compared with the input's.
createReshape(f, name, input, shape, a) ==
    /\ status = "ok"
    /\ f \in Functions
    /\ a \in AllocChoices(heap)
    /\ LET TR == uniqueTypeWithNewShape(types_, getType(input), shape)
       IN  /\ types_' = TR.pool
           /\ IF size(TR.ref.ty.dims) # size(dims(input))
              THEN /\ Aborted(Failed("Reshape"))
                   /\ UNCHANGED <<functions_, heap, uniqueIdx_, misuse>>
              ELSE LET un == uniqueName(name, uniqueIdx_)
                   IN  /\ heap' = [heap EXCEPT ![a] =
                                     [Node("Reshape", un.name, <<TR.ref>>, <<input>>)
                                        EXCEPT !.attr = shape]]
                       /\ functions_' = addNode(functions_, f, a)
                       /\ uniqueIdx_' = un.idx
                       /\ misuse' = (misuse \/ foreignOperand(f, <<input>>))
                       /\ Returned(Call("Reshape", f, a, ""))
    /\ UNCHANGED <<vars_, probe, other>>

\* Module::uniqueName, called by the front end on the name r, then on the
\* name returned.
callUniqueName ==
    /\ status = "ok"
    /\ probe.stage \in {0, 1}
    /\ LET un == uniqueName(IF probe.stage = 0 THEN probe.r ELSE probe.n1, uniqueIdx_)
       IN  /\ uniqueIdx_' = un.idx
           /\ probe' = IF probe.stage = 0
                       THEN [probe EXCEPT !.stage = 1, !.n1 = un.name, !.c1 = uniqueIdx_]
                       ELSE [probe EXCEPT !.stage = 2, !.n2 = un.name, !.c2 = uniqueIdx_]
    /\ Returned(Call("uniqueName", 0, NoAddr, ""))
    /\ UNCHANGED <<types_, vars_, functions_, heap, misuse, other>>

\* Function::createTopK. The two uniqueType calls are arguments of one
\* constructor call, evaluated in either order.
createTopK(f, name, input, k, a, order) ==
    /\ status = "ok"
    /\ f \in Functions
    /\ a \in AllocChoices(heap)
    /\ LET inDims == dims(input)
       IN  IF ~(Len(inDims) > 0) \/ ~(k <= inDims[Len(inDims)])
           THEN /\ Aborted(Failed("TopK"))
                /\ UNCHANGED <<types_, functions_, heap, uniqueIdx_, misuse>>
           ELSE LET outDims == [inDims EXCEPT ![Len(inDims)] = k]
                    valT == Type(getElementType(input), outDims)
                    idxT == Type("Index", outDims)
                    p1 == uniqueType(types_, IF order = "lr" THEN valT ELSE idxT)
                    p2 == uniqueType(p1.pool, IF order = "lr" THEN idxT ELSE valT)
                    un == uniqueName(name, uniqueIdx_)
                IN  /\ types_' = p2.pool
                    /\ heap' = [heap EXCEPT ![a] =
                                  Node("TopK", un.name,
                                       IF order = "lr" THEN <<p1.ref, p2.ref>>
                                       ELSE <<p2.ref, p1.ref>>,
                                       <<input>>)]
                    /\ functions_' = addNode(functions_, f, a)
                    /\ uniqueIdx_' = un.idx
                    /\ misuse' = (misuse \/ foreignOperand(f, <<input>>))
                    /\ Returned(Call("TopK", f, a, ""))
    /\ UNCHANGED <<vars_, probe, other>>

\* A mutant: the first element is unlinked, whichever was asked for.
remove_First(s, N) == Tail(s)

\* A mutant: the element is unlinked and the rest of the list is reversed.
remove_Reversed(s, N) ==
    LET kept == SelectSeq(s, LAMBDA x : x # N)
    IN  [i \in 1..Len(kept) |-> kept[Len(kept) + 1 - i]]

\* std::list::erase of the element N
remove(s, N) == SelectSeq(s, LAMBDA x : x # N)

\* Function::eraseNode(Node *), with eraseNode(NodesList::iterator).
eraseNode(f, N, outcome) ==
    /\ status = "ok"
    /\ f \in Functions
    /\ isLive(N)
    /\ IF isaVariable(N)
       THEN eraseVariable(N, outcome, Call("eraseNode", f, N, ""))
       ELSE /\ outcome = "kept"
            /\ IF N \notin Range(getNodes(f))
               THEN /\ Aborted(Failed("eraseNode"))
                    /\ UNCHANGED <<functions_, heap, misuse>>
               ELSE /\ heap' = [heap EXCEPT ![N] = Deleted]
                    /\ functions_' = [functions_ EXCEPT ![f].nodes = remove(@, N)]
                    /\ misuse' = (misuse \/ hasUsers(N))
                    /\ Returned(Call("eraseNode", f, N, ""))
            /\ UNCHANGED <<types_, vars_, uniqueIdx_, probe, other>>

\* Node::setPredicate on a node N of function f.
setPredicate(f, N, P) ==
    /\ status = "ok"
    /\ f \in Functions
    /\ N \in Range(getNodes(f))
    /\ heap' = [heap EXCEPT ![N].pred = P]
    /\ misuse' = (misuse \/ ~Resolves(f, P))
    /\ Returned(Call("setPredicate", f, N, ""))
    /\ UNCHANGED <<types_, vars_, functions_, uniqueIdx_, probe, other>>

\* ------------------------------------------------------------------ verify

\* The objects whose names Function::verify reads, in the order it reads
\* them: getVars(), then nodes_.
named(f) == vars_ \o getNodes(f)

\* NameToNode.insert(...).second is false for some object: its name was
\* inserted before. (The name read through a pointer to a deleted object is
\* not determined; verifyOutcomes covers it.)
nameConflict(f) ==
    \E i, j \in 1..Len(named(f)) :
        /\ i < j
        /\ isLive(named(f)[i]) /\ isLive(named(f)[j])
        /\ heap[named(f)[i]].name = heap[named(f)[j]].name

\* A mutant: only nodes_ is searched.
edgesResolve_NodesOnly(f) ==
    \A N \in Range(getNodes(f)) : \A idx \in 1..Len(heap[N].ins) :
        heap[N].ins[idx].node \in Range(getNodes(f))

\* The assertion of the loop over getNthInput: each input is found in nodes_
\* or in the copy of vars_.
edgesResolve(f) ==
    \A N \in Range(getNodes(f)) : \A idx \in 1..Len(heap[N].ins) :
        \/ heap[N].ins[idx].node \in Range(getNodes(f))
        \/ heap[N].ins[idx].node \in Range(vars_)

\* N->verify(): the nodes the builders make pass their own checks.
nodeVerify(N) == heap[N].tag = "node"

\* What Function::verify can do: return ("ok"), stop on a name conflict
\* ("names") or on the edge assertion ("edges"). vars_ may hold a pointer to
\* a deleted Variable: V->getName() then reads freed memory, which stops the
\* process ("crash") or yields some name, equal to one seen before or not.
verifyOutcomes(f) ==
    LET rest == IF ~edgesResolve(f) THEN {"edges"}
                ELSE IF \A N \in Range(getNodes(f)) : nodeVerify(N) THEN {"ok"}
                ELSE {"node"}
    IN  IF \E V \in Range(vars_) : heap[V].tag = "freed"
        THEN {"names", "crash"} \cup (IF nameConflict(f) THEN {} ELSE rest)
        ELSE IF nameConflict(f) THEN {"names"} ELSE rest

VerifyCall(op, f, outcome) == [Call(op, f, NoAddr, "") EXCEPT !.why = outcome]

\* Function::verify
verify(f, outcome) ==
    /\ status = "ok"
    /\ f \in Functions
    /\ outcome \in verifyOutcomes(f)
    /\ IF outcome = "ok"
       THEN Returned(VerifyCall("verify", f, outcome))
       ELSE Aborted(VerifyCall("verify", f, outcome))
    /\ UNCHANGED <<types_, vars_, functions_, uniqueIdx_, heap, misuse, probe, other>>

\* A mutant: only the first function is verified.
verified_FirstOnly == Functions \cap {1}

\* The functions Module::verify visits: `for (auto *F : functions_)`.
verified == Functions

\* Module::verify: F->verify() for each function in turn; the first that
\* fails ends the process. outcomes[f] is what F->verify() does if reached.
moduleVerify(outcomes) ==
    /\ status = "ok"
    /\ outcomes \in [verified -> {"ok", "names", "edges", "node", "crash"}]
    /\ \A f \in verified : outcomes[f] \in verifyOutcomes(f)
    /\ LET failing == {f \in verified : outcomes[f] # "ok"}
       IN  IF failing = {}
           THEN Returned(VerifyCall("Module::verify", 0, "ok"))
           ELSE LET first == CHOOSE f \in failing : \A g \in failing : f <= g
                IN  Aborted(VerifyCall("Module::verify", first, outcomes[first]))
    /\ UNCHANGED <<types_, vars_, functions_, uniqueIdx_, heap, misuse, probe, other>>

\* ------------------------------------------------------------------- clone

\* The counter before the i-th node of src is added to the new function.
RECURSIVE idxBefore(_, _)
idxBefore(src, i) ==
    IF i = 1 THEN uniqueIdx_
    ELSE uniqueName(heap[src[i - 1]].name, idxBefore(src, i - 1)).idx

\* Mutants: the edge is left as copied; the result number is lost.
setOperand_NotRewritten(input, currToNew) == input

setOperand_ResNoLost(input, currToNew) ==
    [node |-> currToNew[input.node], resNo |-> 0]

\* input.setOperand(it->second, input.getResNo())
setOperand(input, currToNew) ==
    [node |-> currToNew[input.node], resNo |-> input.resNo]

\* A mutant: the copies are made without the inputs of their originals.
cloneNodes_NoInputs(src, to) ==
    [a \in 0..MaxAddr |->
        IF a \in Range(to)
        THEN [heap[src[indexOf(to, a)]] EXCEPT !.ins = <<>>]
        ELSE heap[a]]

\* A mutant: the inputs are moved to the copies, the originals lose them.
cloneNodes_Moved(src, to) ==
    [a \in 0..MaxAddr |->
        IF a \in Range(to)
        THEN LET i == indexOf(to, a)
             IN  [heap[src[i]] EXCEPT
                    !.name = uniqueName(heap[src[i]].name, idxBefore(src, i)).name]
        ELSE IF a \in Range(src) THEN [heap[a] EXCEPT !.ins = <<>>]
        ELSE heap[a]]

\* The first loop of Function::clone: node i of the source is copied by
\* Node::clone to address to[i] and added to the new function, which gives
\* the copy its own unique name.
cloneNodes(src, to) ==
    [a \in 0..MaxAddr |->
        IF a \in Range(to)
        THEN LET i == indexOf(to, a)
             IN  [heap[src[i]] EXCEPT
                    !.name = uniqueName(heap[src[i]].name, idxBefore(src, i)).name]
        ELSE heap[a]]

\* The inputs of the copies whose producer is not a key of currToNew and whose
\* object was deleted: isa<Variable> reads freed memory there.
danglingInputs(src, h1) ==
    {h1[n].ins[k].node : <<n, k>> \in
        {nk \in Range(src) \X {1, 2} : nk[2] <= Len(h1[nk[1]].ins)}}
    \cap {a \in 0..MaxAddr : a \notin Range(src) /\ h1[a].tag = "freed"}

\* A mutant: the assertion is compiled out.
assertIsaVariable_Off(h, e, readsAsVariable) == TRUE

\* assert(isa<Variable>(input.getNode())) for an input e that is not a key
\* of currToNew, on the heap h.
assertIsaVariable(h, e, readsAsVariable) ==
    h[e.node].tag = "var" \/ e.node \in readsAsVariable

\* A mutant: the loop that fills the external map is missing.
recordMap_Nothing(currToNew) == NoMap

\* The external map, given empty, after `map->insert(it)` for each pair.
recordMap(currToNew) == currToNew

\* Function::clone. readsAsVariable: the deleted objects for which
\* isa<Variable> answers true.
clone(f, newName) ==
    /\ status = "ok"
    /\ f \in Functions
    /\ IF hasFunction(newName)
       THEN /\ Aborted(Failed("clone"))
            /\ UNCHANGED <<functions_, heap, uniqueIdx_>>
       ELSE \E to \in AllocSeqs(heap, Len(getNodes(f))) :
            LET src == getNodes(f)
                n == Len(src)
                h1 == cloneNodes(src, to)
                currToNew == [p \in Range(src) |-> to[indexOf(src, p)]]
            IN  \E readsAsVariable \in SUBSET danglingInputs(src, h1) :
                LET mapped(e) == e.node \in DOMAIN currToNew
                    asserts(e) == assertIsaVariable(h1, e, readsAsVariable)
                    bad == {ik \in (1..n) \X {1, 2} :
                              /\ ik[2] <= Len(h1[to[ik[1]]].ins)
                              /\ ~mapped(h1[to[ik[1]]].ins[ik[2]])
                              /\ ~asserts(h1[to[ik[1]]].ins[ik[2]])}
                    reached(i, k) ==
                        \A b \in bad : i < b[1] \/ (i = b[1] /\ k < b[2])
                    h2 == [a \in 0..MaxAddr |->
                             IF a \in Range(to)
                             THEN [h1[a] EXCEPT !.ins =
                                     [k \in 1..Len(h1[a].ins) |->
                                        IF reached(indexOf(to, a), k) /\ mapped(h1[a].ins[k])
                                        THEN setOperand(h1[a].ins[k], currToNew)
                                        ELSE h1[a].ins[k]]]
                             ELSE h1[a]]
                IN  /\ heap' = h2
                    /\ functions_' = Append(functions_, [name |-> newName, nodes |-> to])
                    /\ uniqueIdx_' = idxBefore(src, n + 1)
                    /\ IF bad = {}
                       THEN Returned([Call("clone", f, NoAddr, newName)
                                        EXCEPT !.map = recordMap(currToNew)])
                       ELSE Aborted(Failed("clone"))
    /\ UNCHANGED <<types_, vars_, misuse, probe, other>>

\* ------------------------------------------------------------ specification

F2 == Type("Float", <<2>>)

\* No round trip: r is the name asked for, n1 and n2 the names returned,
\* c1 and c2 the counter at each call.
Idle == [stage |-> 3, r |-> <<>>, n1 |-> <<>>, n2 |-> <<>>, c1 |-> 0, c2 |-> 0]

\* The members of a Module after construction. The calls are made on one
\* Module, whose members are types_, vars_, functions_ and uniqueIdx_; the
\* members of a second Module are kept in `other`. Both allocate from the
\* same heap.
Members(id, ts, vs, fs, idx) ==
    [id |-> id, types_ |-> ts, vars_ |-> vs, functions_ |-> fs, uniqueIdx_ |-> idx]
SecondModule == Members("B", <<>>, <<>>, <<>>, 1)

EmptyModule ==
    /\ types_ = <<>>
    /\ vars_ = <<>>
    /\ functions_ = <<>>
    /\ heap = [a \in 0..MaxAddr |->
                 IF a = ForeignVar THEN Variable(<<"x">>, ExtRef(F2)) ELSE Unallocated]
    /\ status = "ok"
    /\ last = Call("Module", 0, NoAddr, "")
    /\ misuse = FALSE
    /\ other = SecondModule

Init ==
    /\ EmptyModule
    /\ uniqueIdx_ = 1
    /\ probe = Idle

FuncNames == {"F", "G"}
VarNames == {<<"a">>}
NodeNames == {<<"a">>}
Outcomes == {"kept", "crash"}

\* The operands the front end passes to a builder of function f: any it can
\* hold, or only Variables of the Module and nodes of f.
OperandsFor(f, any) == {v \in Operands : any \/ Resolves(f, v)}

\* The front end's calls. The first function made is "F"; names are made
\* while the counter is below limit.
DoCreateFunction ==
    \E name \in FuncNames :
        /\ functions_ = <<>> => name = "F"
        /\ createFunction(name)

DoCreateVariable(limit) ==
    /\ uniqueIdx_ < limit
    /\ \E name \in VarNames, a \in Addr : createVariable(ExtRef(F2), name, a)

DoCreateSplat(limit) ==
    /\ uniqueIdx_ < limit
    /\ \E f \in Functions, name \in NodeNames, a \in Addr :
          createSplat(f, name, ExtRef(F2), a)

DoCreateAdd(limit, any) ==
    /\ uniqueIdx_ < limit
    /\ \E f \in Functions, name \in NodeNames, a \in Addr :
       \E LHS \in OperandsFor(f, any), RHS \in OperandsFor(f, any) :
          createArith("Add", f, name, getType(LHS), LHS, RHS, a)

DoCreateTopK(limit, any) ==
    /\ uniqueIdx_ < limit
    /\ \E f \in Functions, name \in NodeNames, a \in Addr :
       \E input \in OperandsFor(f, any) :
          createTopK(f, name, input, 1, a, "lr")

\* A Variable of another Module is given to eraseNode of the first function.
DoEraseVariable ==
    \E N \in Addr, outcome \in Outcomes : callEraseVariable(N, outcome)

DoEraseNode ==
    \E f \in Functions, N \in 0..MaxAddr, outcome \in Outcomes :
        /\ N = ForeignVar => f = 1
        /\ eraseNode(f, N, outcome)

DoClone(limit) ==
    \E f \in Functions, newName \in FuncNames :
        /\ uniqueIdx_ <= limit
        /\ clone(f, newName)

Next ==
    \/ DoCreateFunction
    \/ DoCreateVariable(MaxIdx)
    \/ DoCreateSplat(MaxIdx)
    \/ DoCreateAdd(MaxIdx, TRUE)
    \/ DoEraseVariable
    \/ DoEraseNode
    \/ DoClone(MaxIdx)

Spec == Init /\ [][Next]_vars

\* A Module with one Variable and one function of one node: the state after
\* createVariable(FloatTy, {2}, "a", ...), createFunction("F") and
\* F->createTopK("a", the Variable, 1) on a new Module.
InitClone ==
    /\ types_ = <<Type("Index", <<1>>), Type("Float", <<1>>), F2>>
    /\ vars_ = <<1>>
    /\ functions_ = <<[name |-> "F", nodes |-> <<2>>]>>
    /\ heap = [a \in 0..MaxAddr |->
                 IF a = ForeignVar THEN Variable(<<"x">>, ExtRef(F2))
                 ELSE IF a = 1 THEN Variable(uniqueName(<<"a">>, 1).name, PoolRef(F2))
                 ELSE IF a = 2
                 THEN Node("TopK", uniqueName(<<"a">>, 2).name,
                           <<PoolRef(Type("Float", <<1>>)), PoolRef(Type("Index", <<1>>))>>,
                           <<NodeValue(1, 0)>>)
                 ELSE Unallocated]
    /\ uniqueIdx_ = 3
    /\ status = "ok"
    /\ last = Call("TopK", 1, 2, "")
    /\ misuse = FALSE
    /\ probe = Idle
    /\ other = SecondModule

\* The front end builds each function from the Module's Variables and the
\* function's own nodes, clones, and erases nothing; it makes the calls whose
\* assertions hold.
NextClone ==
    \/ DoCreateFunction /\ status' = "ok"
    \/ DoCreateAdd(MaxCloneIdx, FALSE) /\ status' = "ok"
    \/ DoCreateTopK(MaxCloneIdx, FALSE) /\ status' = "ok"
    \/ DoClone(MaxCloneIdx) /\ status' = "ok"

SpecClone == InitClone /\ [][NextClone]_vars

\* The front end sets predicates, verifies, and clones under a third name.
DoSetPredicate ==
    /\ Cardinality({N \in Addr : heap[N].pred # NoPredicate}) < MaxPredicates
    /\ \E f \in Functions, N \in Addr, P \in Operands :
          /\ P.resNo = 0 /\ ~isaVariable(P.node)
          /\ setPredicate(f, N, P)

DoVerify ==
    \E f \in Functions, outcome \in {"ok", "names", "edges", "node", "crash"} :
        verify(f, outcome)

DoModuleVerify ==
    \E outcomes \in [verified -> {"ok", "names", "edges", "node", "crash"}] :
        moduleVerify(outcomes)

DoCloneAs(limit) ==
    \E f \in Functions, newName \in {"H"} :
        /\ uniqueIdx_ <= limit
        /\ clone(f, newName)

\* A Module with one Variable v and two functions: the state after
\* createVariable(FloatTy, {2}, "a"), createFunction("F"),
\* F->createSplat("a", ty, 0), F->createAdd("a", v, the Splat),
\* createFunction("G") and G->createAdd("a", v, the Splat of F) on a new
\* Module, ty being the Variable's type: the node of G consumes a node of F.
InitVerify ==
    /\ types_ = <<F2>>
    /\ vars_ = <<1>>
    /\ functions_ = <<[name |-> "F", nodes |-> <<2, 3>>], [name |-> "G", nodes |-> <<4>>]>>
    /\ heap = [a \in 0..MaxAddr |->
                 IF a = ForeignVar THEN Variable(<<"x">>, ExtRef(F2))
                 ELSE IF a = 1 THEN Variable(uniqueName(<<"a">>, 1).name, PoolRef(F2))
                 ELSE IF a = 2 THEN Node("Splat", uniqueName(<<"a">>, 2).name,
                                         <<PoolRef(F2)>>, <<>>)
                 ELSE IF a = 3 THEN Node("Add", uniqueName(<<"a">>, 3).name,
                                         <<PoolRef(F2)>>, <<NodeValue(1, 0), NodeValue(2, 0)>>)
                 ELSE IF a = 4 THEN Node("Add", uniqueName(<<"a">>, 4).name,
                                         <<PoolRef(F2)>>, <<NodeValue(1, 0), NodeValue(2, 0)>>)
                 ELSE Unallocated]
    /\ uniqueIdx_ = 5
    /\ status = "ok"
    /\ last = Call("Add", 2, 4, "")
    /\ misuse = TRUE
    /\ probe = Idle
    /\ other = SecondModule

\* Building, erasing, setting predicates and verifying.
NextVerify ==
    \/ DoCreateVariable(MaxVerifyIdx)
    \/ DoEraseVariable
    \/ DoEraseNode
    \/ DoSetPredicate
    \/ DoVerify
    \/ DoModuleVerify

\* The runs start from the new Module or from the Module with two functions.
InitEither == Init \/ InitVerify

SpecVerify == InitEither /\ [][NextVerify]_vars

\* Erasing, setting predicates and cloning.
NextMisuse ==
    \/ DoEraseNode
    \/ DoSetPredicate
    \/ DoCloneAs(MaxVerifyIdx)

SpecMisuse == InitVerify /\ [][NextMisuse]_vars

\* Naming after erasing: Variables are made and erased, nodes are erased and
\* the functions cloned.
NextCounter ==
    \/ DoCreateVariable(MaxVerifyIdx)
    \/ DoEraseVariable
    \/ DoEraseNode
    \/ DoCloneAs(MaxVerifyIdx)

SpecCounter == InitVerify /\ [][NextCounter]_vars

\* Matrix products: Variables of a few shapes and element kinds, and
\* createMatMul(name, lhs, rhs) on any two of them or of the products.
MatTypes ==
    {Type("Float", <<2, 3>>), Type("Float", <<3, 2>>), Type("Float", <<2>>),
     Type("Index", <<3, 2>>)}

DoCreateF == functions_ = <<>> /\ createFunction("F")

DoCreateMatVariable ==
    /\ uniqueIdx_ < MaxMatIdx
    /\ \E T \in MatTypes, a \in Addr : createVariable(ExtRef(T), <<"a">>, a)

DoCreateMatMulInferred ==
    /\ uniqueIdx_ < MaxMatIdx
    /\ \E f \in Functions, a \in Addr, lhs \in Operands, rhs \in Operands :
          createMatMulInferred(f, <<"a">>, lhs, rhs, a)

NextMatMul ==
    \/ DoCreateF
    \/ DoCreateMatVariable
    \/ DoCreateMatMulInferred

SpecMatMul == Init /\ [][NextMatMul]_vars

\* Shapes: Variables of a few shapes and element kinds, and the builders
\* that compute a result shape from their operands.
ShapeTypes ==
    {Type("Float", <<4, 10>>), Type("Float", <<4, 6>>), Type("Index", <<4, 10>>),
     Type("Float", <<4>>)}

DoCreateShapeVariable ==
    /\ uniqueIdx_ < MaxShapeIdx
    /\ \E T \in ShapeTypes, a \in Addr : createVariable(ExtRef(T), <<"a">>, a)

\* The lists of at most MaxInputs live objects that have a result.
InputLists ==
    UNION {[1..n -> {x \in Addr : isLive(x) /\ heap[x].tys # <<>>}] : n \in 0..MaxInputs}

DoCreateConcat ==
    /\ uniqueIdx_ < MaxShapeIdx
    /\ \E f \in Functions, a \in Addr, inputs \in InputLists, dimension \in 0..2 :
          createConcat(f, <<"a">>, inputs, dimension, a)

\* begin and end of the slices asked for: of rank 2 and of rank 1, inside
\* and outside the shapes of ShapeTypes.
Corners == {<<0, 0>>, <<1, 6>>, <<4, 6>>, <<4, 10>>, <<2, 11>>, <<0>>, <<4>>}

DoCreateSlice ==
    /\ uniqueIdx_ < MaxShapeIdx
    /\ \E f \in Functions, a \in Addr, input \in Operands :
       \E begin \in Corners, end \in Corners :
          createSlice(f, <<"a">>, input, begin, end, a)

\* The names given to createSave: plain, and with the delimiter in front.
SaveNames == {<<"a">>, <<"_", "_", "a">>}

DoCreateSave ==
    /\ uniqueIdx_ + 1 < MaxShapeIdx
    /\ \E f \in Functions, name \in SaveNames, input \in Operands :
       \E to \in AllocSeqs(heap, 2) :
          createSave(f, name, input, to)

\* The shapes asked of createReshape.
NewShapes == {<<40>>, <<10, 4>>, <<4>>}

DoCreateReshape ==
    /\ uniqueIdx_ < MaxShapeIdx
    /\ \E f \in Functions, a \in Addr, input \in Operands, shape \in NewShapes :
          createReshape(f, <<"a">>, input, shape, a)

NextShapes ==
    \/ DoCreateF
    \/ DoCreateShapeVariable
    \/ DoCreateConcat
    \/ DoCreateSlice
    \/ DoCreateSave
    \/ DoCreateReshape

SpecShapes == Init /\ [][NextShapes]_vars

\* Convolutions: Variables in NHWC layout (and one that is not), and
\* createConv(name, input, depth, kernel, stride, pad) with stride >= 1.
ConvTypes ==
    {Type("Float", <<1, 32, 32, 3>>), Type("Float", <<1, 4, 6, 2>>),
     Type("Float", <<1, 6, 4, 2>>), Type("Float", <<4>>)}

DoCreateConvVariable ==
    /\ uniqueIdx_ < MaxConvIdx
    /\ \E T \in ConvTypes, a \in Addr : createVariable(ExtRef(T), <<"a">>, a)

DoCreateConv ==
    /\ uniqueIdx_ + 2 < MaxConvIdx
    /\ \E f \in Functions, input \in Operands, to \in AllocSeqs(heap, 3) :
       \E kernel \in {5, 6}, stride \in {1, 2}, pad \in {0, 2} :
          createConv(f, <<"a">>, input, 16, kernel, stride, pad, to)

NextConv ==
    \/ DoCreateF
    \/ DoCreateConvVariable
    \/ DoCreateConv

SpecConv == Init /\ [][NextConv]_vars

\* Two Modules built by one front end. It names the Variables of the first
\* "a" and those of the second "b", erases only Variables that the Module
\* it calls lists (getVars()), and turns from one Module to the other
\* between calls: the members the next calls work on are those of the other
\* Module, and the heap is the same.
This == IF other.id = "A" THEN "B" ELSE "A"
NameIn(id) == IF id = "A" THEN <<"a">> ELSE <<"b">>

DoCreateOwnVariable ==
    /\ uniqueIdx_ < MaxTwoIdx
    /\ \E a \in Addr : createVariable(ExtRef(F2), NameIn(This), a)

DoEraseListed ==
    \E N \in Range(vars_), outcome \in Outcomes : callEraseVariable(N, outcome)

DoTurn ==
    /\ status = "ok"
    /\ types_' = other.types_
    /\ vars_' = other.vars_
    /\ functions_' = other.functions_
    /\ uniqueIdx_' = other.uniqueIdx_
    /\ other' = Members(This, types_, vars_, functions_, uniqueIdx_)
    /\ UNCHANGED <<heap, status, last, misuse, probe>>

NextTwo ==
    \/ DoCreateOwnVariable
    \/ DoEraseListed
    \/ DoTurn

SpecTwo == Init /\ [][NextTwo]_vars

\* The type pool: the front end's calls with float and quantized Types, with
\* pointers into the pool and to a Type outside it, while the pool holds
\* fewer than MaxPool Types.
Q2(scale) == QType("Int8Q", <<2>>, scale, 0)
TypeInputs == {F2, Q2(1), Q2(2)}
DimInputs == {<<1>>}
RefInputs == {PoolRef(types_[i]) : i \in 1..Len(types_)} \cup {ExtRef(Q2(1))}

HasRoom == Len(types_) < MaxPool

\* The front end asks for new Types while the pool has room, and for stored
\* ones at any time.
DoUniqueType ==
    \E T \in TypeInputs :
        /\ HasRoom \/ \E i \in 1..Len(types_) : isEqual(T, types_[i])
        /\ callUniqueType(T)

DoUniqueTypeWithNewShape ==
    /\ HasRoom
    /\ \E T \in RefInputs, newDims \in DimInputs : callUniqueTypeWithNewShape(T, newDims)

DoCreateTypedVariable ==
    /\ uniqueIdx_ < MaxTypeIdx
    /\ HasRoom
    /\ \E T \in RefInputs, name \in VarNames, a \in Addr : createVariable(T, name, a)

DoCreateTypedAdd ==
    /\ uniqueIdx_ < MaxTypeIdx
    /\ HasRoom
    /\ \E f \in Functions, name \in NodeNames, a \in Addr, T \in RefInputs :
       \E LHS \in Operands, RHS \in Operands :
          createArith("Add", f, name, T, LHS, RHS, a)

DoCreateQuantize ==
    /\ uniqueIdx_ < MaxTypeIdx
    /\ HasRoom
    /\ \E f \in Functions, name \in NodeNames, a \in Addr, outTy \in RefInputs :
       \E input \in Operands :
          createQuantize(f, name, input, outTy, a)

DoCreateMatMul ==
    /\ uniqueIdx_ < MaxTypeIdx
    /\ HasRoom
    /\ \E f \in Functions, name \in NodeNames, a \in Addr, outTy \in RefInputs :
       \E lhs \in Operands, rhs \in Operands :
          createMatMul(f, name, outTy, lhs, rhs, a)

DoCreateTopKEitherOrder ==
    /\ uniqueIdx_ < MaxTypeIdx
    /\ HasRoom
    /\ \E f \in Functions, name \in NodeNames, a \in Addr, order \in {"lr", "rl"} :
       \E input \in Operands :
          createTopK(f, name, input, 1, a, order)

NextTypes ==
    \/ functions_ = <<>> /\ createFunction("F")
    \/ DoUniqueType
    \/ DoUniqueTypeWithNewShape
    \/ HasRoom /\ getVoidTy
    \/ DoCreateTypedVariable
    \/ DoCreateTypedAdd
    \/ DoCreateQuantize
    \/ DoCreateMatMul
    \/ DoCreateTopKEitherOrder

SpecTypes == Init /\ [][NextTypes]_vars

\* The round trip of uniqueName on every name of at most MaxLen characters,
\* from every counter up to MaxStart.
Alphabet == {"a", "_", "1"}
Strings(n) == UNION {[1..k -> Alphabet] : k \in 0..n}

InitNames ==
    /\ EmptyModule
    /\ uniqueIdx_ \in 0..MaxStart
    /\ \E r \in Strings(MaxLen) : probe = [Idle EXCEPT !.stage = 0, !.r = r]

NextNames == callUniqueName

SpecNames == InitNames /\ [][NextNames]_vars

\* ------------------------------------------------------------- properties

Completed == status = "ok"
AllNodes == UNION {Range(getNodes(f)) : f \in Functions}
InputsOf(n) == Range(heap[n].ins)
HeldVariables == {a \in Range(vars_) : heap[a].tag = "var"}
HeldNodes(f) == {a \in Range(getNodes(f)) : heap[a].tag = "node"}
TypeOps == {"uniqueType", "uniqueTypeWithNewShape", "getVoidTy"}

\* C1: no two Types of the pool are structurally equal; a call of the pool
\* returns a stored instance equal to the Type asked for, adds nothing when an
\* equal Type was stored and adds exactly that Type otherwise (so different
\* Types get different instances).
NoEqualTypes(pool) == \A i, j \in 1..Len(pool) : pool[i] = pool[j] => i = j
C1_Step ==
    /\ NoEqualTypes(types_')
    /\ (last'.op \in TypeOps /\ status' = "ok") =>
          /\ last'.ret = PoolRef(last'.req)
          /\ last'.req \in Range(types_')
          /\ IF last'.req \in Range(types_)
             THEN types_' = types_
             ELSE /\ Len(types_') = Len(types_) + 1
                  /\ Range(types_') = Range(types_) \cup {last'.req}
C1_TypesUniqued == [][C1_Step]_vars

\* A call of the pool found the Type it was asked for behind another one.
C1_Witness ==
    /\ last.op \in TypeOps
    /\ Len(types_) >= 2
    /\ types_[1] # last.req
    /\ last.ret = PoolRef(last.req)

\* C2: the names of the Variables the Module holds and of the nodes its
\* functions hold are pairwise distinct.
Named == HeldVariables \cup UNION {HeldNodes(f) : f \in Functions}
C2_NamesDistinct == \A a, b \in Named : heap[a].name = heap[b].name => a = b

\* A Variable, a node and the copy clone made of the node are held.
C2_Witness ==
    /\ Completed
    /\ last.op = "clone"
    /\ HeldVariables # {}
    /\ Len(functions_) = 2
    /\ \A f \in Functions : HeldNodes(f) # {}

\* C3: the text of n2 before the suffix its call appended is the text of n1
\* before the suffix its call appended.
Kept(n, c) == SubSeq(n, 1, Len(n) - 2 - Len(to_string(c)))
C3_PrefixStable ==
    probe.stage = 2 => Kept(probe.n2, probe.c2) = Kept(probe.n1, probe.c1)

\* Every input edge of every node a function holds has its producer among
\* the Variables the Module holds or the nodes the same function holds.
Closed ==
    \A f \in Functions : \A n \in HeldNodes(f) : \A v \in InputsOf(n) :
        v.node \in HeldVariables \cup HeldNodes(f)

\* C4, as stated: closure holds after any sequence of completed operations.
C4_ClosedAlways == Completed => Closed

\* C4, amended: closure holds while every operand given to a builder was a
\* Variable of the Module or a node of the same function, and nothing was
\* erased while an input edge referred to it.
C4_ClosedUnderDiscipline == (Completed /\ ~misuse) => Closed

\* Under that discipline an object was erased, and a function still holds a
\* node with an input edge.
C4_Witness ==
    /\ Completed
    /\ ~misuse
    /\ last.op = "eraseNode"
    /\ \E a \in Addr : heap[a].tag = "freed"
    /\ \E n \in AllNodes : InputsOf(n) # {}

\* The nodes reached from the nodes S along at most n input edges.
RECURSIVE Producers(_, _)
Producers(S, n) ==
    IF n = 0 THEN S
    ELSE Producers(S \cup {v.node : v \in UNION {InputsOf(x) : x \in S}}, n - 1)

Acyclic ==
    \A a \in AllNodes :
        a \notin Producers({v.node : v \in InputsOf(a)}, MaxAddr)

\* Each producer that is a node stands in the consumer's list before it.
ProducersFirst ==
    \A f \in Functions : \A i \in 1..Len(getNodes(f)) :
        \A v \in InputsOf(getNodes(f)[i]) :
            heap[v.node].tag = "node" =>
                \E j \in 1..(i - 1) : getNodes(f)[j] = v.node

\* C5, as stated: the node graph is acyclic in every state.
C5_AcyclicAlways == Completed => Acyclic

\* C5, amended: under the discipline of C4 the node graph is acyclic and
\* every producer node precedes its consumers in their function's list.
C5_AcyclicUnderDiscipline == (Completed /\ ~misuse) => (Acyclic /\ ProducersFirst)

\* Under the discipline clone returned, and in each of the two functions a
\* node consumes a node.
C5_Witness ==
    /\ Completed
    /\ ~misuse
    /\ last.op = "clone"
    /\ Len(functions_) = 2
    /\ \A f \in Functions : \E n \in HeldNodes(f) : \E v \in InputsOf(n) :
          v.node \in HeldNodes(f)

\* C6: every result Type of every node is an instance of the Module's pool.
C6_ResultTypesPooled ==
    \A n \in AllNodes : \A T \in Range(heap[n].tys) :
        T.home = "pool" /\ T.ty \in Range(types_)

\* C7: createFunction returns only for a name no function had, and then
\* appends an empty function of that name; when it fails the functions are
\* unchanged; clone returns only for a name no function had; function names
\* are pairwise distinct.
NameUsed(name) == \E i \in 1..Len(functions_) : functions_[i].name = name
C7_Step ==
    /\ (last'.op = "createFunction" /\ status' = "ok") =>
          /\ ~NameUsed(last'.name)
          /\ functions_' = Append(functions_, [name |-> last'.name, nodes |-> <<>>])
    /\ (last'.op = "createFunction" /\ status' = "aborted") => functions_' = functions_
    /\ (last'.op = "clone" /\ status' = "ok") => ~NameUsed(last'.name)
    /\ \A i, j \in 1..Len(functions_') :
          functions_'[i].name = functions_'[j].name => i = j
C7_FunctionNamesUnique == [][C7_Step]_vars

\* createFunction failed in a Module of two functions.
C7_Witness ==
    /\ status = "aborted"
    /\ last.op = "createFunction"
    /\ Len(functions_) = 2

\* C8: when eraseVariable returns for a Variable of vars_, the Variable is
\* no longer in vars_, the others are, and vars_ is shorter by one.
C8_Step ==
    (last'.op = "eraseVariable" /\ status' = "ok" /\ last'.a \in Range(vars_)) =>
        /\ last'.a \notin Range(vars_')
        /\ Range(vars_') = Range(vars_) \ {last'.a}
        /\ Len(vars_') = Len(vars_) - 1
C8_VariableRemoved == [][C8_Step]_vars

\* C9: when eraseNode returns, the node was in the collection it is removed
\* from (the function's nodes, or vars_ for a Variable) and no longer is.
C9_Step ==
    (last'.op = "eraseNode" /\ status' = "ok") =>
        IF isaVariable(last'.a)
        THEN last'.a \in Range(vars_) /\ last'.a \notin Range(vars_')
        ELSE /\ last'.a \in Range(getNodes(last'.f))
             /\ last'.a \notin Range(functions_'[last'.f].nodes)
C9_EraseNodeRemovesOrFails == [][C9_Step]_vars

\* C10: after clone returns for a function whose edges all resolve, the new
\* function has as many nodes as the source; its i-th node is another object
\* of the kind of the source's i-th node, with as many inputs; and where
\* input k of the source's node is result slot r of the source's j-th node,
\* input k of the copy is result slot r of the new function's j-th node.
Copies(src, new) ==
    /\ Len(new) = Len(src)
    /\ \A i \in 1..Len(src) :
          /\ new[i] # src[i]
          /\ new[i] \notin Range(src)
          /\ heap[new[i]].tag = "node"
          /\ heap[new[i]].kind = heap[src[i]].kind
          /\ Len(heap[new[i]].ins) = Len(heap[src[i]].ins)
          /\ \A k \in 1..Len(heap[src[i]].ins) :
                \A j \in 1..Len(src) :
                    heap[src[i]].ins[k].node = src[j] =>
                        heap[new[i]].ins[k] =
                            [node |-> new[j], resNo |-> heap[src[i]].ins[k].resNo]
WellFormed(f) ==
    \A n \in HeldNodes(f) : \A v \in InputsOf(n) :
        v.node \in HeldVariables \cup HeldNodes(f)
C10_CloneIsomorphic ==
    (Completed /\ last.op = "clone" /\ WellFormed(last.f)) =>
        Copies(getNodes(last.f), getNodes(Len(functions_)))

\* clone returned for a function of which a node consumes result slot 1 of
\* another.
C10_Witness ==
    /\ Completed
    /\ last.op = "clone"
    /\ \E n \in HeldNodes(last.f) : \E v \in InputsOf(n) :
          v.node \in HeldNodes(last.f) /\ v.resNo = 1

\* C11: the map clone fills has the nodes of the source as its keys and no
\* Variable, takes the i-th node of the source to the i-th node of the new
\* function, is injective, and its values are the nodes of the new function.
C11_MapCoversNodes ==
    (Completed /\ last.op = "clone") =>
        LET src == getNodes(last.f)
            new == getNodes(Len(functions_))
            map == last.map
        IN  /\ DOMAIN map = Range(src)
            /\ \A a \in DOMAIN map : heap[a].tag = "node" /\ a \notin Range(vars_)
            /\ Len(new) = Len(src)
            /\ \A i \in 1..Len(src) : map[src[i]] = new[i]
            /\ \A a, b \in DOMAIN map : map[a] = map[b] => a = b
            /\ {map[a] : a \in DOMAIN map} = Range(new)

\* clone returned the map of a function of two nodes that consume a Variable.
C11_Witness ==
    /\ Completed
    /\ last.op = "clone"
    /\ Len(getNodes(last.f)) = 2
    /\ \A n \in HeldNodes(last.f) : \E v \in InputsOf(n) : v.node \in HeldVariables

\* C12: clone leaves vars_ and every Variable as they were, and where input k
\* of the source's i-th node is a result of a Variable, input k of the i-th
\* copy is that same result of that same Variable.
C12_Step ==
    (last'.op = "clone" /\ status' = "ok") =>
        LET src == getNodes(last'.f)
            new == functions_'[Len(functions_')].nodes
        IN  /\ vars_' = vars_
            /\ \A a \in Range(vars_) : heap'[a] = heap[a]
            /\ Len(new) = Len(src)
            /\ \A i \in 1..Len(src) :
                  /\ Len(heap'[new[i]].ins) = Len(heap[src[i]].ins)
                  /\ \A k \in 1..Len(heap[src[i]].ins) :
                        heap[heap[src[i]].ins[k].node].tag = "var" =>
                            heap'[new[i]].ins[k] = heap[src[i]].ins[k]
C12_ValuesShared == [][C12_Step]_vars

\* clone returned, and a node of the new function and a node of the source
\* consume the same Variable.
C12_Witness ==
    /\ Completed
    /\ last.op = "clone"
    /\ \E v \in HeldVariables :
          /\ \E n \in HeldNodes(last.f) : \E e \in InputsOf(n) : e.node = v
          /\ \E n \in HeldNodes(Len(functions_)) : \E e \in InputsOf(n) : e.node = v


\* The edges of node n: its positional inputs and, when set, its predicate.
EdgesOf(n) ==
    Range(heap[n].ins) \cup (IF heap[n].pred = NoPredicate THEN {} ELSE {heap[n].pred})
AllEdgesResolve(f) ==
    \A n \in Range(getNodes(f)) : \A e \in EdgesOf(n) : Resolves(f, e)

\* C13: when clone returns for a source function all of whose input and
\* predicate edges have as producer a Variable of the Module or a node of the
\* source, every input and predicate edge of every node of the new function
\* has as producer a Variable of the Module or a node of the new function, and
\* none refers to a node of the source.
C13_ClonedEdgesResolve ==
    (Completed /\ last.op = "clone" /\ AllEdgesResolve(last.f)) =>
        /\ AllEdgesResolve(Len(functions_))
        /\ \A n \in Range(getNodes(Len(functions_))) : \A e \in EdgesOf(n) :
               e.node \notin Range(getNodes(last.f))


\* C14: clone does not return when some input edge of a node of the source
\* has as producer a live object that is neither a node of the source nor a
\* Variable: it returns only if every such producer is a node of the source,
\* a Variable, or an object that was deleted (for which what clone does is not
\* determined).
C14_Step ==
    (status = "ok" /\ last'.op = "clone" /\ status' = "ok") =>
        \A N \in Range(getNodes(last'.f)) : \A e \in InputsOf(N) :
            \/ e.node \in Range(getNodes(last'.f))
            \/ heap[e.node].tag = "var"
            \/ heap[e.node].tag = "freed"
C14_FailsOnLiveStrayEdge == [][C14_Step]_vars

\* clone stopped on its assertion: the new function exists and one of its
\* copies still has an input whose producer is a live node of another
\* function.
C14_Witness ==
    /\ status = "aborted"
    /\ last.op = "clone"
    /\ Len(functions_) = 3
    /\ \E n \in Range(getNodes(3)) : \E e \in InputsOf(n) :
          heap[e.node].tag = "node" /\ e.node \notin Range(getNodes(3))

\* C14 as stated: clone returns only if every producer is a node of the
\* source or a Variable.
C14_StepAsStated ==
    (status = "ok" /\ last'.op = "clone" /\ status' = "ok") =>
        \A N \in Range(getNodes(last'.f)) : \A e \in InputsOf(N) :
            \/ e.node \in Range(getNodes(last'.f))
            \/ heap[e.node].tag = "var"
C14_FailsOnAnyStrayEdge == [][C14_StepAsStated]_vars


\* C15: Function::verify stops on a name conflict if and only if two distinct
\* objects among the Variables of the Module and the nodes of this function
\* have the same name.
SameNameMembers(f) ==
    \E a, b \in HeldVariables \cup HeldNodes(f) :
        a # b /\ heap[a].name = heap[b].name
C15_NameConflictIff ==
    (last.op = "verify") =>
        ((status = "aborted" /\ last.why = "names") <=> SameNameMembers(last.f))


\* C16: Function::verify stops when some node of the function has an input
\* whose producer is neither in the function's node list nor a Variable of
\* the Module, and it stops on the edge check only then.
StrayInput(f) ==
    \E N \in Range(getNodes(f)) : \E e \in InputsOf(N) :
        e.node \notin Range(getNodes(f)) /\ e.node \notin HeldVariables
C16_DanglingEdgeFails ==
    (last.op = "verify") =>
        /\ StrayInput(last.f) => status = "aborted"
        /\ last.why = "edges" => StrayInput(last.f)


\* C17: Function::verify stops when some node of the function has a
\* predicate edge whose producer is neither a Variable of the Module nor in
\* the function's node list.
StrayPredicate(f) ==
    \E N \in Range(getNodes(f)) :
        /\ heap[N].pred # NoPredicate
        /\ heap[N].pred.node \notin Range(getNodes(f))
        /\ heap[N].pred.node \notin HeldVariables
C17_StrayPredicateFails ==
    (last.op = "verify" /\ StrayPredicate(last.f)) => status = "aborted"


\* C18: Module::verify returns only if Function::verify can return for every
\* function of the Module, so it stops whenever the verify of some function
\* must stop; it stops only if the verify of some function can stop, and the
\* failure is that of the first such function reached; on a Module with no
\* functions it returns.
C18_Step ==
    (status = "ok" /\ last'.op = "Module::verify") =>
        /\ status' = "ok" =>
              \A f \in 1..Len(functions_) : "ok" \in verifyOutcomes(f)
        /\ status' = "aborted" =>
              /\ last'.f \in 1..Len(functions_)
              /\ last'.why \in verifyOutcomes(last'.f) \ {"ok"}
              /\ \A g \in 1..(last'.f - 1) : "ok" \in verifyOutcomes(g)
        /\ functions_ = <<>> => status' = "ok"
C18_ModuleVerifyRunsAll == [][C18_Step]_vars

\* Module::verify stopped in the second function, after the verify of the
\* first returned.
C18_Witness ==
    /\ status = "aborted"
    /\ last.op = "Module::verify"
    /\ last.f = 2
    /\ last.why = "edges"

\* Module::verify returned on a Module with no functions.
C18_WitnessEmpty ==
    /\ Completed
    /\ last.op = "Module::verify"
    /\ functions_ = <<>>


\* C19: the node list of a function keeps insertion order: a builder that
\* returns has appended its node at the end of the list of its function;
\* eraseNode that returns for a node has taken exactly that node out of the
\* list, the others keeping their order; and no step changes the list of
\* any other function.
Builders == {"Splat", "Add"}
WithoutAt(s, i) == SubSeq(s, 1, i - 1) \o SubSeq(s, i + 1, Len(s))
C19_Step ==
    (status = "ok" /\ status' = "ok") =>
        /\ Len(functions_') >= Len(functions_)
        /\ \A f \in 1..Len(functions_) :
              LET old == functions_[f].nodes
                  new == functions_'[f].nodes
              IN  IF last'.op \in Builders /\ last'.f = f
                  THEN new = Append(old, last'.a) /\ last'.a \notin Range(old)
                  ELSE IF last'.op = "eraseNode" /\ last'.f = f /\ ~isaVariable(last'.a)
                  THEN /\ Cardinality({i \in 1..Len(old) : old[i] = last'.a}) = 1
                       /\ \A i \in 1..Len(old) :
                              old[i] = last'.a => new = WithoutAt(old, i)
                  ELSE new = old
C19_InsertionOrderKept == [][C19_Step]_vars

\* eraseNode returned for a node of a function that had three nodes.
C19_Witness ==
    /\ Completed
    /\ last.op = "eraseNode"
    /\ heap[last.a].tag = "freed"
    /\ Len(getNodes(last.f)) = 2


\* C20: when createMatMul(name, lhs, rhs) returns, the second dimension of
\* lhs equals the first dimension of rhs, and the shape of the result is
\* (lhs.dims[0], rhs.dims[1]).
C20_InnerDimensionChecked ==
    (Completed /\ last.op = "MatMul") =>
        LET lhs == heap[last.a].ins[1]
            rhs == heap[last.a].ins[2]
        IN  /\ Len(dims(lhs)) = 2 /\ Len(dims(rhs)) = 2
            /\ dims(lhs)[2] = dims(rhs)[1]
            /\ heap[last.a].tys[1].ty.dims = <<dims(lhs)[1], dims(rhs)[2]>>


\* C21: when createConcat(name, inputs, axis) returns, every input has the
\* element kind and the rank of the first and the first's size on every
\* dimension other than axis, and the shape of the result is the first
\* input's with, along axis, the sum of the inputs' sizes along axis.
RECURSIVE SumOf(_)
SumOf(sizes) == IF sizes = <<>> THEN 0 ELSE sizes[1] + SumOf(Tail(sizes))
C21_ConcatShape ==
    (Completed /\ last.op = "Concat") =>
        LET N == heap[last.a]
            axis == N.attr[1] + 1
            shapeOf(i) == getType(N.ins[i]).ty.dims
            out == N.tys[1].ty.dims
        IN  /\ Len(N.ins) >= 1
            /\ axis \in 1..Len(shapeOf(1))
            /\ \A i \in 1..Len(N.ins) :
                  /\ getType(N.ins[i]).ty.elem = getType(N.ins[1]).ty.elem
                  /\ Len(shapeOf(i)) = Len(shapeOf(1))
                  /\ \A d \in 1..Len(shapeOf(1)) : d # axis => shapeOf(i)[d] = shapeOf(1)[d]
            /\ Len(out) = Len(shapeOf(1))
            /\ \A d \in 1..Len(out) : d # axis => out[d] = shapeOf(1)[d]
            /\ out[axis] = SumOf([i \in 1..Len(N.ins) |-> shapeOf(i)[axis]])

\* createConcat returned for inputs of shapes (4,10) and (4,6) on axis 1,
\* with a result of shape (4,16).
C21_Witness ==
    /\ Completed
    /\ last.op = "Concat"
    /\ heap[last.a].attr = <<1>>
    /\ Len(heap[last.a].ins) = 2
    /\ getType(heap[last.a].ins[1]).ty.dims = <<4, 10>>
    /\ getType(heap[last.a].ins[2]).ty.dims = <<4, 6>>
    /\ heap[last.a].tys[1].ty.dims = <<4, 16>>


\* C22: when createSlice(name, input, begin, end) returns, begin and end have
\* the rank of the input, 0 <= begin[i] < end[i] <= dim[i] on every axis, the
\* shape of the result is end[i] - begin[i] on every axis (so between 1 and
\* dim[i]), and the result has the element kind of the input.
C22_SliceShape ==
    (Completed /\ last.op = "Slice") =>
        LET input == heap[last.a].ins[1]
            dim == getType(input).ty.dims
            begin == last.args[1]
            end == last.args[2]
            out == heap[last.a].tys[1].ty
        IN  /\ Len(begin) = Len(dim) /\ Len(end) = Len(dim) /\ Len(out.dims) = Len(dim)
            /\ \A i \in 1..Len(dim) :
                  /\ 0 <= begin[i] /\ begin[i] < end[i] /\ end[i] <= dim[i]
                  /\ out.dims[i] = end[i] - begin[i]
                  /\ 1 <= out.dims[i] /\ out.dims[i] <= dim[i]
            /\ out.elem = getType(input).ty.elem

\* createSlice returned for a slice that starts inside the input and ends at
\* its far corner.
C22_Witness ==
    /\ Completed
    /\ last.op = "Slice"
    /\ last.args = <<(<<1, 6>>), (<<4, 10>>)>>
    /\ heap[last.a].tys[1].ty.dims = <<3, 4>>


\* C23: when createConv(name, input, depth, kernel, stride, pad) returns, the
\* input (N, H, W, C) has H >= kernel and W >= kernel, the shape of the result
\* is (N, (H + 2*pad - kernel) div stride + 1, (W + 2*pad - kernel) div stride
\* + 1, depth), and the filter and the bias are two new Variables of the
\* Module of shapes (depth, kernel, kernel, C) and (depth).
C23_ConvShape ==
    (Completed /\ last.op = "Conv") =>
        LET N == heap[last.a]
            in == getType(N.ins[1]).ty.dims
            kernel == N.attr[1]
            stride == N.attr[2]
            pad == N.attr[3]
            depth == N.attr[4]
        IN  /\ Len(in) = 4
            /\ in[2] >= kernel /\ in[3] >= kernel
            /\ N.tys[1].ty.dims =
                  <<in[1], ((in[2] + 2 * pad - kernel) \div stride) + 1,
                    ((in[3] + 2 * pad - kernel) \div stride) + 1, depth>>
            /\ N.ins[2].node \in HeldVariables /\ N.ins[3].node \in HeldVariables
            /\ N.ins[2].node # N.ins[3].node
            /\ getType(N.ins[2]).ty.dims = <<depth, kernel, kernel, in[4]>>
            /\ getType(N.ins[3]).ty.dims = <<depth>>

\* createConv returned for the input (1,32,32,3) with kernel 5, stride 1,
\* pad 2 and depth 16, with a result of shape (1,32,32,16).
C23_Witness ==
    /\ Completed
    /\ last.op = "Conv"
    /\ getType(heap[last.a].ins[1]).ty.dims = <<1, 32, 32, 3>>
    /\ heap[last.a].attr = <<5, 1, 2, 16>>
    /\ heap[last.a].tys[1].ty.dims = <<1, 32, 32, 16>>


\* C24: when createSave(name, input) returns, vars_ has exactly one more
\* Variable, which is Public, has initialization None and the Type of input;
\* the function has exactly one more node, added at the end, a Save node
\* whose operands are input and that Variable; and the names of the Variable
\* and of the node differ.
C24_Step ==
    (status = "ok" /\ last'.op = "Save" /\ status' = "ok") =>
        LET f == last'.f
            N == last'.a
            input == last'.args[1]
            V == vars_'[Len(vars_')]
        IN  /\ vars_' = Append(vars_, V)
            /\ ~isLive(V) /\ ~isLive(N) /\ V # N
            /\ heap'[V].tag = "var"
            /\ heap'[V].attr = <<"Public", "None">>
            /\ heap'[V].tys[1].ty = getType(input).ty
            /\ Len(functions_') = Len(functions_)
            /\ \A g \in 1..Len(functions_) :
                  functions_'[g].nodes =
                      IF g = f THEN Append(functions_[g].nodes, N) ELSE functions_[g].nodes
            /\ heap'[N].tag = "node" /\ heap'[N].kind = "Save"
            /\ heap'[N].ins = <<input, NodeValue(V, 0)>>
            /\ heap'[N].name # heap'[V].name
            /\ \A x \in 0..MaxAddr : x \notin {V, N} => heap'[x] = heap[x]
C24_SaveAddsValueAndNode == [][C24_Step]_vars

\* createSave returned for a name that starts with the delimiter.
C24_Witness ==
    /\ Completed
    /\ last.op = "Save"
    /\ heap[last.a].kind = "Save"
    /\ Len(vars_) >= 2
    /\ heap[vars_[Len(vars_)]].name[1] = "_"


\* C27: a builder call that stops on a precondition leaves the Module and
\* the function as they were: no Variable, no Type of the pool, no node and
\* no object is added and the name counter does not advance.
RejectingBuilders == {"Concat", "Slice", "Reshape"}
C27_Step ==
    (status = "ok" /\ status' = "aborted" /\ last'.op \in RejectingBuilders) =>
        /\ types_' = types_
        /\ vars_' = vars_
        /\ functions_' = functions_
        /\ uniqueIdx_' = uniqueIdx_
        /\ heap' = heap
C27_RejectedCallChangesNothing == [][C27_Step]_vars


\* C28: when clone returns, the functions the Module had keep their node
\* lists, and every node of the source is as it was: same name, same inputs
\* (producer and result number), same everything.
C28_Step ==
    (status = "ok" /\ last'.op = "clone" /\ status' = "ok") =>
        /\ Len(functions_') = Len(functions_) + 1
        /\ \A g \in 1..Len(functions_) : functions_'[g] = functions_[g]
        /\ \A N \in Range(functions_[last'.f].nodes) :
              /\ heap'[N].name = heap[N].name
              /\ heap'[N].ins = heap[N].ins
              /\ heap'[N] = heap[N]
C28_SourceUnchanged == [][C28_Step]_vars

\* clone returned for a function one of whose nodes consumes another, and
\* the copy of the consumer consumes a node of the new function.
C28_Witness ==
    /\ Completed
    /\ last.op = "clone"
    /\ \E n \in HeldNodes(last.f) : \E v \in InputsOf(n) : v.node \in HeldNodes(last.f)
    /\ \E n \in HeldNodes(Len(functions_)) : \E v \in InputsOf(n) :
          v.node \in HeldNodes(Len(functions_))


\* C26: the name counter never decreases; a call that returns advances it by
\* one for each object it names, and eraseNode and eraseVariable leave it as
\* it is; the name of every object made in a step ends in "__" and a value
\* the counter had during that step, which no earlier name ends in, and every
\* name held ends in a value below the counter. So no name is given twice,
\* whether its first holder is still held or was erased.
EndsIn(name, k) ==
    LET suffix == <<"_", "_">> \o to_string(k)
    IN  /\ Len(name) >= Len(suffix)
        /\ SubSeq(name, Len(name) - Len(suffix) + 1, Len(name)) = suffix
C26_Step ==
    (status = "ok") =>
        LET made == {a \in Addr :
                        /\ heap'[a].tag \in {"var", "node"}
                        /\ (~isLive(a) \/ heap'[a].name # heap[a].name)}
        IN  /\ uniqueIdx_' >= uniqueIdx_
            /\ status' = "ok" => uniqueIdx_' - uniqueIdx_ = Cardinality(made)
            /\ last'.op \in {"eraseNode", "eraseVariable"} => uniqueIdx_' = uniqueIdx_
            /\ \A a \in made :
                  /\ \E k \in uniqueIdx_..(uniqueIdx_' - 1) : EndsIn(heap'[a].name, k)
                  /\ \A k \in 1..(uniqueIdx_ - 1) : ~EndsIn(heap'[a].name, k)
                  /\ \A b \in Addr : isLive(b) => heap'[a].name # heap[b].name
                  /\ \A b \in made : b # a => heap'[a].name # heap'[b].name
            /\ \A a \in Addr :
                  heap'[a].tag \in {"var", "node"} =>
                      \E k \in 1..(uniqueIdx_' - 1) : EndsIn(heap'[a].name, k)
C26_CounterNeverReused == [][C26_Step]_vars

\* An object was made and named after another was erased.
C26_Witness ==
    /\ Completed
    /\ last.op \in {"createVariable", "Splat", "Add"}
    /\ uniqueIdx_ >= 3
    /\ \E a \in Addr : heap[a].tag = "freed"


\* C25: a call made on one Module leaves the other Module as it is: its
\* type pool, its list of Variables, its functions and its name counter are
\* the same after the call, and so is every Variable it owns.
Owned(m) ==
    {x \in Range(m.vars_) :
        heap[x].tag = "var" /\ heap[x].name[1] = NameIn(m.id)[1]}
C25_Step ==
    (status = "ok" /\ other'.id = other.id) =>
        /\ other' = other
        /\ \A x \in Owned(other) : heap'[x] = heap[x]
C25_OtherModuleUntouched == [][C25_Step]_vars

====
